---- MODULE Spec2Model ----
(***************************************************************************)
(* A model of CyLP's modelling layer, src/py/modeling/CyLPModel.py:        *)
(* the IndexFactory, the expression trees that the overloaded operators    *)
(* build, CyLPExpr.evaluate / CyLPConstraint.perform, and the parts of     *)
(* CyLPModel that add variables and constraints, set the objective and     *)
(* lay out the blocks of the coefficient matrix.                           *)
(*                                                                         *)
(* Conventions.                                                            *)
(*  - Numbers are integers; a numpy array is [nd, m]: nd its number of     *)
(*    dimensions and m its rows (a 1-D array is one row).                  *)
(*  - Python's None is 0 for nRows, -1 for fromInd/toInd, 0 for parent and *)
(*    [none |-> TRUE] for a constraint's lower/upper.                      *)
(*  - An operand of an expression is a record with a kind k: "num", "arr"  *)
(*    (a caller's array, by its name in the pool `arrays`), "str" (the ''  *)
(*    default of CyLPExpr.__init__), "none", "var" (a CyLPVar object) or   *)
(*    "node" (a CyLPExpr object).                                          *)
(*  - The module is Python 2 code (long, list-valued range and keys()).    *)
(*    numpy behaves as the numpy its doctest (lines 10-50) runs under:     *)
(*    `array == None` is the scalar False, and an assignment through an    *)
(*    index array to a 1-D array repeats or truncates the values assigned. *)
(***************************************************************************)
EXTENDS Integers, Sequences, FiniteSets, TLC

VARIABLES
    variables,         \* CyLPModel.variables: the block variables, each with its bounds and expr pointer
    constraints,       \* CyLPModel.constraints: the stored (non-range) constraints
    objective_,        \* CyLPModel.objective_
    inds,              \* CyLPModel.inds, an IndexFactory
    allVarNames,       \* CyLPModel.allVarNames      (set by makeIndexFactory)
    allParentVarDims,  \* CyLPModel.allParentVarDims (set by makeIndexFactory)
    nRows,             \* CyLPModel.nRows            (set by makeIndexFactory)
    arrays,            \* the caller's numpy arrays, which constraints hold by reference
    last,              \* the last call made, its argument and what it returned or raised
    nCalls             \* the number of calls made so far

vars == <<variables, constraints, objective_, inds, allVarNames, allParentVarDims,
          nRows, arrays, last, nCalls>>

(***************************************************************************)
(* Bounds of the model.                                                    *)
(***************************************************************************)
MaxCalls == 2
MaxDim == 3
MaxCount == 2
MaxIndexCalls == 4

Names == <<"x", "y">>
ConstNames == <<"Manpower", "Gold">>

getCoinInfinity == 1000

(***************************************************************************)
(* Sequences and arrays.                                                   *)
(***************************************************************************)
Range(a, b) == [i \in 1..(b - a) |-> a + i - 1]

SeqToSet(s) == {s[i] : i \in DOMAIN s}

Fill(n, v) == [i \in 1..n |-> v]

RECURSIVE Concat(_)
Concat(ss) == IF ss = <<>> THEN <<>> ELSE ss[1] \o Concat(Tail(ss))

Vec(row) == [nd |-> 1, m |-> <<row>>]

Mat(rows) == [nd |-> 2, m |-> rows]

NoArr == [nd |-> 0, m |-> <<>>]

Scale(a, k) == [a EXCEPT !.m = [i \in DOMAIN a.m |-> [j \in DOMAIN a.m[i] |-> k * a.m[i][j]]]]

\* shape[-1] and the number of rows a coefficient contributes
LastDim(a) == Len(a.m[1])

(***************************************************************************)
(* IndexFactory (lines 477-555).                                           *)
(***************************************************************************)
IndexFactory ==
    [varIndex |-> <<>>, constIndex |-> <<>>, currentVarIndex |-> 0, currentConstIndex |-> 0]

addVar_NoAdvance(f, varName, numberOfVars) ==
    IF numberOfVars = 0 THEN f
    ELSE [f EXCEPT !.varIndex =
              IF varName \in DOMAIN f.varIndex
              THEN [@ EXCEPT ![varName] =
                        @ \o Range(f.currentVarIndex, f.currentVarIndex + numberOfVars)]
              ELSE (varName :> Range(f.currentVarIndex, f.currentVarIndex + numberOfVars)) @@ @]

addVar(f, varName, numberOfVars) ==
    IF numberOfVars = 0 THEN f
    ELSE [f EXCEPT !.varIndex =
              IF varName \in DOMAIN f.varIndex
              THEN [@ EXCEPT ![varName] =
                        @ \o Range(f.currentVarIndex, f.currentVarIndex + numberOfVars)]
              ELSE (varName :> Range(f.currentVarIndex, f.currentVarIndex + numberOfVars)) @@ @,
                    !.currentVarIndex = @ + numberOfVars]

hasVar(f, varName) == varName \in DOMAIN f.varIndex

addConst(f, constName, numberOfConsts) ==
    IF numberOfConsts = 0 THEN f
    ELSE [f EXCEPT !.constIndex =
              IF constName \in DOMAIN f.constIndex
              THEN [@ EXCEPT ![constName] =
                        @ \o Range(f.currentConstIndex, f.currentConstIndex + numberOfConsts)]
              ELSE (constName :> Range(f.currentConstIndex, f.currentConstIndex + numberOfConsts)) @@ @,
                    !.currentConstIndex = @ + numberOfConsts]

hasConst(f, constName) == constName \in DOMAIN f.constIndex

(***************************************************************************)
(* Operands: constants, CyLPVar objects and CyLPExpr nodes.                *)
(***************************************************************************)
Num(n) == [k |-> "num", n |-> n]

Arr(id) == [k |-> "arr", id |-> id]

EmptyStr == [k |-> "str"]

None == [k |-> "none"]

Self == [k |-> "self"]

\* CyLPExpr.__init__ (lines 65-69); the node's own expr pointer is kept by
\* the operators below, which are the only ones that read it.
CyLPExpr(opr, left, right) == [k |-> "node", opr |-> opr, left |-> left, right |-> right]

\* CyLPVar.__init__ (lines 357-371) for the variable CyLPModel.variables[i]:
\* oid is the object's identity, blk the block variable it belongs to.
CyLPVar(vs, i) ==
    [k |-> "var", oid |-> i, blk |-> i, name |-> vs[i].name, dim |-> vs[i].dim,
     parentDim |-> vs[i].dim, parent |-> 0, hasInd |-> FALSE, indices |-> <<>>,
     fromInd |-> -1, toInd |-> -1]

\* CyLPVar.__getitem__ with an int key (lines 382-387); oid identifies the
\* new object.
GetItemInt(v, key, oid) ==
    [v EXCEPT !.oid = oid, !.dim = 1, !.parentDim = v.dim, !.parent = v.blk,
              !.hasInd = TRUE, !.indices = <<key>>, !.fromInd = -1, !.toInd = -1]

\* CyLPVar.__getitem__ with a slice key (lines 388-402): the stop is clamped
\* to the block's dim.
GetItemSlice(v, start, stop, oid) ==
    LET newObj_toInd == IF stop > v.dim THEN v.dim ELSE stop
    IN  [v EXCEPT !.oid = oid, !.parentDim = v.dim, !.parent = v.blk,
                  !.hasInd = TRUE, !.indices = Range(start, newObj_toInd),
                  !.fromInd = start, !.toInd = newObj_toInd,
                  !.dim = newObj_toInd - start]

\* CyLPVar.__repr__ (lines 373-379): `self.fromInd and self.toInd` is false
\* for a slice that starts at 0, as it is for None.
Truthy(n) == n # -1 /\ n # 0

Repr(v) ==
    IF Truthy(v.fromInd) /\ Truthy(v.toInd) THEN <<v.name, "[:]", v.fromInd, v.toInd>>
    ELSE IF v.hasInd /\ Len(v.indices) = 1 THEN <<v.name, "[]", v.indices[1], 0>>
    ELSE <<v.name, "", 0, 0>>

IsVar(o) == o.k = "var"

\* isinstance(o, CyLPExpr): CyLPVar is a subclass
IsExpr(o) == o.k \in {"var", "node"}

IsNumber(o) == o.k = "num"

\* CyLPExpr.__eq__ between two CyLPVar (lines 92-93)
VarEq(a, b) == Repr(a) = Repr(b)

\* `v in list` for a list of CyLPVar: identity, or __eq__
InList(list, v) == \E i \in DOMAIN list : list[i].oid = v.oid \/ VarEq(list[i], v)

IsBlockObj(o) == o.k = "var" /\ o.parent = 0

\* o.expr = node, kept for the block variables (the objects that outlive
\* the statement)
SetExpr(vs, o, node) ==
    IF IsBlockObj(o) THEN [vs EXCEPT ![o.blk].expr = node] ELSE vs

\* o.expr of an object that no comparison of this statement has repointed
ExprOf(vs, o) ==
    IF IsBlockObj(o) /\ vs[o.blk].expr.k # "self" THEN vs[o.blk].expr ELSE o

(***************************************************************************)
(* The expressions a caller writes, and the trees Python builds from them  *)
(* by way of CyLPExpr's operators (lines 79-120) and CyLPArray's (436-474). *)
(***************************************************************************)
N(n) == [s |-> "num", n |-> n]

A(id) == [s |-> "arr", id |-> id]

V(i) == [s |-> "blk", i |-> i]

Ix(i, key) == [s |-> "idx", i |-> i, key |-> key]

Sl(i, a, b) == [s |-> "slc", i |-> i, a |-> a, b |-> b]

Bin(op, l, r) == [s |-> "bin", op |-> op, l |-> l, r |-> r]

Mul(l, r) == Bin("*", l, r)

Add(l, r) == Bin("+", l, r)

Sub(l, r) == Bin("-", l, r)

Neg(r) == [s |-> "neg", r |-> r]

Cmp(l, op, r) == [s |-> "cmp", op |-> op, l |-> l, r |-> r]

Chain(lo, op1, mid, op2, hi) ==
    [s |-> "chain", op1 |-> op1, op2 |-> op2, lo |-> lo, mid |-> mid, hi |-> hi]

\* CyLPExpr(opr, left, right) called directly, on constants
Raw(op, l, r) == [s |-> "raw", op |-> op, l |-> l, r |-> r]

BuildFail(vs) == [ok |-> FALSE, val |-> None, vs |-> vs]

\* An arithmetic expression: Python evaluates the left operand, then the
\* right one, and calls the right operand's __rmul__/__radd__/__rsub__ (the
\* left one defines no __mul__/__add__/__sub__); a constant on the right is a
\* TypeError. path numbers the places of the expression, and so the objects
\* that x[a:b] and x[i] create.
RECURSIVE BuildArith(_, _, _)
BuildArith(e, vs, path) ==
    CASE e.s = "num" -> [ok |-> TRUE, val |-> Num(e.n), vs |-> vs]
      [] e.s = "arr" -> [ok |-> TRUE, val |-> Arr(e.id), vs |-> vs]
      [] e.s = "blk" -> [ok |-> TRUE, val |-> CyLPVar(vs, e.i), vs |-> vs]
      [] e.s = "idx" -> [ok |-> TRUE, val |-> GetItemInt(CyLPVar(vs, e.i), e.key, -path), vs |-> vs]
      [] e.s = "slc" -> [ok |-> TRUE, val |-> GetItemSlice(CyLPVar(vs, e.i), e.a, e.b, -path), vs |-> vs]
      [] e.s = "neg" ->
            LET r == BuildArith(e.r, vs, 2 * path + 1)
            IN  IF ~r.ok \/ ~IsExpr(r.val) THEN BuildFail(r.vs)
                ELSE LET v == CyLPExpr("u-", EmptyStr, r.val)
                     IN  [ok |-> TRUE, val |-> v, vs |-> SetExpr(r.vs, r.val, v)]
      [] e.s = "bin" ->
            LET l == BuildArith(e.l, vs, 2 * path)
                r == BuildArith(e.r, l.vs, 2 * path + 1)
            IN  IF ~l.ok THEN BuildFail(l.vs)
                ELSE IF ~r.ok \/ ~IsExpr(r.val) THEN BuildFail(r.vs)
                ELSE LET v == CyLPExpr(e.op, l.val, r.val)
                     IN  [ok |-> TRUE, val |-> v, vs |-> SetExpr(r.vs, r.val, v)]
      [] e.s = "raw" ->
            LET l == BuildArith(e.l, vs, 2 * path)
                r == BuildArith(e.r, l.vs, 2 * path + 1)
            IN  IF ~l.ok THEN BuildFail(l.vs)
                ELSE IF ~r.ok THEN BuildFail(r.vs)
                ELSE [ok |-> TRUE, val |-> CyLPExpr(e.op, l.val, r.val), vs |-> r.vs]
      [] OTHER -> BuildFail(vs)

Swap(op) == CASE op = "<=" -> ">=" [] op = ">=" -> "<=" [] OTHER -> op

\* l op r for a comparison operator, l and r built, lexpr and rexpr their
\* expr pointers: __le__/__ge__/__eq__ of l when l is symbolic (lines
\* 79-96), else the reflected operator of r; between two constants, or two
\* CyLPVar under ==, Python answers a bool and there is no expression.
Compare(vs, op, l, lexpr, r, rexpr) ==
    IF IsExpr(l)
    THEN IF op = "==" /\ IsVar(l) /\ IsVar(r) THEN [ok |-> FALSE, val |-> None, vs |-> vs, on |-> "none"]
         ELSE LET v == CyLPExpr(op, lexpr, r)
              IN  [ok |-> TRUE, val |-> v, vs |-> SetExpr(vs, l, v), on |-> "l"]
    ELSE IF IsExpr(r)
    THEN LET v == CyLPExpr(Swap(op), rexpr, l)
         IN  [ok |-> TRUE, val |-> v, vs |-> SetExpr(vs, r, v), on |-> "r"]
    ELSE [ok |-> FALSE, val |-> None, vs |-> vs, on |-> "none"]

\* The statement's expression: arithmetic, one comparison, or Python's
\* chained comparison lo op1 mid op2 hi, which is (lo op1 mid) and
\* (mid op2 hi) with mid evaluated once: a node is true, so the value is
\* the second comparison's, built on what the first left in mid.expr.
Build(e, vs) ==
    LET Compared(c) == [ok |-> c.ok, val |-> c.val, vs |-> c.vs]
        Second(mid, hi, c1) ==
            IF ~c1.ok \/ ~hi.ok THEN BuildFail(c1.vs)
            ELSE Compared(Compare(c1.vs, e.op2, mid.val,
                                  IF c1.on = "r" THEN c1.val ELSE ExprOf(c1.vs, mid.val),
                                  hi.val, ExprOf(c1.vs, hi.val)))
        First(lo, mid, hi) ==
            IF ~lo.ok THEN BuildFail(lo.vs)
            ELSE IF ~mid.ok THEN BuildFail(mid.vs)
            ELSE Second(mid, hi, Compare(mid.vs, e.op1, lo.val, ExprOf(mid.vs, lo.val),
                                         mid.val, ExprOf(mid.vs, mid.val)))
        Upper(lo, mid) == First(lo, mid, BuildArith(e.hi, mid.vs, 3))
        Middle(lo) == Upper(lo, BuildArith(e.mid, lo.vs, 5))
        Both(l, r) ==
            IF ~l.ok THEN BuildFail(l.vs)
            ELSE IF ~r.ok THEN BuildFail(r.vs)
            ELSE Compared(Compare(r.vs, e.op, l.val, ExprOf(r.vs, l.val),
                                  r.val, ExprOf(r.vs, r.val)))
        Right(l) == Both(l, BuildArith(e.r, l.vs, 3))
    IN  CASE e.s = "cmp" -> Right(BuildArith(e.l, vs, 2))
          [] e.s = "chain" -> Middle(BuildArith(e.lo, vs, 4))
          [] OTHER -> BuildArith(e, vs, 1)

(***************************************************************************)
(* CyLPConstraint (lines 178-343).  The accumulator also carries what      *)
(* perform reads and writes outside the constraint: the caller's arrays    *)
(* (arrs) and the block variables with their bounds (vs); err is the       *)
(* exception raised, "" while none is.                                     *)
(***************************************************************************)
NoBound == [none |-> TRUE, num |-> FALSE, v |-> <<>>]

ArrBound(v) == [none |-> FALSE, num |-> FALSE, v |-> v]

NumBound(n) == [none |-> FALSE, num |-> TRUE, v |-> <<n>>]

\* CyLPConstraint.__init__ (lines 179-187)
CyLPConstraint(arrs, vs) ==
    [err |-> "", varNames |-> <<>>, parentVarDims |-> <<>>, varCoefs |-> <<>>,
     lower |-> NoBound, upper |-> NoBound, nRows |-> 0, isRange |-> TRUE,
     variables |-> <<>>, arrs |-> arrs, vs |-> vs]

Raise(s, e) == [s EXCEPT !.err = e]

\* a coefficient is an array of the constraint's own, or the caller's array
Own(a) == [ref |-> "", val |-> a]

Ref(id) == [ref |-> id, val |-> NoArr]

Ones(dim) == Vec(Fill(dim, 1))

\* the dictionary varCoefs, keyed by object identity (__hash__ is id)
HasKey(vc, var) == \E i \in DOMAIN vc : vc[i].var.oid = var.oid

KeyIndex(vc, var) == CHOOSE i \in DOMAIN vc : vc[i].var.oid = var.oid

SetCoef(vc, var, coef) ==
    IF HasKey(vc, var) THEN [vc EXCEPT ![KeyIndex(vc, var)].coef = coef]
    ELSE Append(vc, [var |-> var, coef |-> coef])

Keys(vc) == [i \in DOMAIN vc |-> vc[i].var]

\* the value of a coefficient, read through the reference it holds
CoefValue(c, arrs) == IF c.ref = "" THEN c.val ELSE arrs[c.ref]

\* lines 205-207, 252-254, 265-268, 276-278
Register(s, var) ==
    IF var.name \in SeqToSet(s.varNames) THEN s
    ELSE [s EXCEPT !.varNames = Append(@, var.name),
                   !.parentVarDims = (var.name :> var.parentDim) @@ @]

\* self.varCoefs[key] *= -1 (lines 258, 286): a KeyError unless key is one
\* of the keys; the array is negated in place, the caller's one too.
NegateCoef(s, key) ==
    IF ~IsVar(key) \/ ~HasKey(s.varCoefs, key) THEN Raise(s, "KeyError")
    ELSE LET i == KeyIndex(s.varCoefs, key)
             c == s.varCoefs[i].coef
         IN  IF c.ref = "" THEN [s EXCEPT !.varCoefs[i].coef.val = Scale(c.val, -1)]
             ELSE [s EXCEPT !.arrs[c.ref] = Scale(@, -1)]

\* opr == "*" (lines 220-243)
PerformMul(s, left, right) ==
    IF IsNumber(left)
    THEN IF s.nRows # 0 /\ s.nRows # 1 THEN Raise(s, "Expected 1-dimensional coefficient")
         ELSE [s EXCEPT !.nRows = 1,
                        !.varCoefs = SetCoef(@, right, Own(Scale(Ones(right.dim), left.n))),
                        !.isRange = FALSE]
    ELSE IF left.k # "arr" THEN Raise(s, "AttributeError")
    ELSE LET coef == s.arrs[left.id]
             nr == IF coef.nd = 1 THEN 1 ELSE Len(coef.m)
         IN  IF right.dim # LastDim(coef) THEN Raise(s, "Coefficient has wrong number of columns")
             ELSE IF s.nRows # 0 /\ s.nRows # nr THEN Raise(s, "Coefficient has wrong number of rows")
             ELSE [s EXCEPT !.nRows = nr,
                            !.varCoefs = SetCoef(@, right, Ref(left.id)),
                            !.isRange = FALSE]

\* opr == "+" or "-", right a CyLPVar (lines 245-268)
PerformAddSub(s, opr, left, right) ==
    LET Right(s2) ==
            IF InList(Keys(s2.varCoefs), right) THEN NegateCoef(s2, right)
            ELSE Register([s2 EXCEPT !.varCoefs =
                                         SetCoef(@, right,
                                                 Own(Scale(Ones(right.dim),
                                                           IF opr = "-" THEN -1 ELSE 1))),
                                     !.nRows = 1], right)
    IN  Right(IF IsVar(left)
              THEN Register([s EXCEPT !.isRange = FALSE,
                                      !.varCoefs = SetCoef(@, left, Own(Ones(left.dim))),
                                      !.nRows = 1], left)
              ELSE [s EXCEPT !.isRange = FALSE])

\* isinstance(right, CyLPVar) (lines 204-268)
PerformRightVar(s, opr, left, right) ==
    LET Branch(s0) ==
            CASE opr = "u-" ->
                    [s0 EXCEPT !.varCoefs = SetCoef(@, right, Own(Scale(Ones(right.dim), -1))),
                               !.isRange = FALSE, !.nRows = right.dim]
              [] opr = "*" -> PerformMul(s0, left, right)
              [] opr \in {"+", "-"} -> PerformAddSub(s0, opr, left, right)
              [] OTHER -> s0
    IN  IF IsVar(right) THEN Branch(Register(s, right)) ELSE s

\* "check if no coef for left" (lines 270-278)
PerformLeftVar(s, opr, left) ==
    IF s.err = "" /\ IsVar(left) /\ opr \in {"-", "+"}
    THEN Register([s EXCEPT !.isRange = FALSE,
                            !.varCoefs = SetCoef(@, left, Own(Ones(left.dim))),
                            !.nRows = 1], left)
    ELSE s

\* "Coef already set for the right operand" (lines 280-286)
PerformRightExpr(s, opr, right) ==
    IF s.err = "" /\ right.k = "node" /\ opr = "-"
    THEN NegateCoef([s EXCEPT !.isRange = FALSE], right.right)
    ELSE s

\* a[indices] = bound for a 1-D array a: the values are repeated or cut to
\* the number of indices
AssignAt(a, indices, bound) ==
    [p \in DOMAIN a |->
        IF \E j \in DOMAIN indices : indices[j] + 1 = p
        THEN LET j == CHOOSE j \in DOMAIN indices : indices[j] + 1 = p
             IN  bound.v[((j - 1) % Len(bound.v)) + 1]
        ELSE a[p]]

WriteBound_WholeArray(s, var, which, bound) ==
    LET old == IF which = "lower" THEN s.vs[var.blk].lower ELSE s.vs[var.blk].upper
        new == [p \in DOMAIN old |-> bound.v[((p - 1) % Len(bound.v)) + 1]]
    IN  IF which = "lower" THEN [s EXCEPT !.vs[var.blk].lower = new]
        ELSE [s EXCEPT !.vs[var.blk].upper = new]

\* var.parent.lower[var.indices] = bound, or var.lower[var.indices] = bound
\* with indices None, which assigns the whole array (lines 321-331)
WriteBound(s, var, which, bound) ==
    LET old == IF which = "lower" THEN s.vs[var.blk].lower ELSE s.vs[var.blk].upper
        fits == IF var.parent # 0
                THEN bound.v # <<>> /\ \A j \in DOMAIN var.indices : var.indices[j] < Len(old)
                ELSE bound.num \/ Len(bound.v) \in {1, Len(old)}
        new == IF var.parent # 0 THEN AssignAt(old, var.indices, bound)
               ELSE [p \in DOMAIN old |-> IF Len(bound.v) = 1 THEN bound.v[1] ELSE bound.v[p]]
    IN  IF ~fits THEN Raise(s, "IndexError or ValueError")
        ELSE IF which = "lower" THEN [s EXCEPT !.vs[var.blk].lower = new]
        ELSE [s EXCEPT !.vs[var.blk].upper = new]

\* self.lower = bound, and the default of the other side (lines 334-343);
\* len(bound) of a number is a TypeError
StoreBound(s, which, bound) ==
    LET other == IF which = "lower" THEN s.upper ELSE s.lower
        inf == IF which = "lower" THEN getCoinInfinity ELSE -getCoinInfinity
        s1 == IF which = "lower" THEN [s EXCEPT !.lower = bound] ELSE [s EXCEPT !.upper = bound]
    IN  IF ~other.none THEN s1
        ELSE IF bound.num THEN Raise(s1, "TypeError")
        ELSE IF which = "lower" THEN [s1 EXCEPT !.upper = ArrBound(Fill(Len(bound.v), inf))]
        ELSE [s1 EXCEPT !.lower = ArrBound(Fill(Len(bound.v), inf))]

PerformCompare_Skipped(s, opr, left, right) == s

\* opr in ("<=", ">=", "==") (lines 288-343)
PerformCompare(s, opr, left, right) ==
    IF IsExpr(left) = IsExpr(right)
    THEN Raise(s, "At least one side of a comparison sign should be constant.")
    ELSE IF s.isRange /\ s.variables = <<>> THEN Raise(s, "IndexError")
    ELSE LET var == s.variables[1]
             s1 == IF s.isRange THEN [s EXCEPT !.nRows = var.parentDim] ELSE s
             dim == s1.nRows
             const == IF IsExpr(left) THEN right ELSE left
             bound == IF IsNumber(right) THEN ArrBound(Fill(dim, right.n))
                      ELSE IF IsNumber(const) THEN NumBound(const.n)
                      ELSE ArrBound(s.arrs[const.id].m[1])
             toLower == \/ opr \in {">=", "=="} /\ IsExpr(left)
                        \/ opr \in {"<=", "=="} /\ IsExpr(right)
             toUpper == \/ opr \in {"<=", "=="} /\ IsExpr(left)
                        \/ opr \in {">=", "=="} /\ IsExpr(right)
             WriteUpper(s2) ==
                 IF s2.err # "" \/ ~toUpper THEN s2 ELSE WriteBound(s2, var, "upper", bound)
             StoreUpper(s2) ==
                 IF s2.err # "" \/ ~toUpper THEN s2 ELSE StoreBound(s2, "upper", bound)
         IN  IF const.k \notin {"num", "arr"} THEN Raise(s1, "TypeError")
             ELSE IF s.isRange
             THEN WriteUpper(IF toLower THEN WriteBound(s1, var, "lower", bound) ELSE s1)
             ELSE StoreUpper(IF toLower THEN StoreBound(s1, "lower", bound) ELSE s1)

\* CyLPConstraint.perform (lines 203-343)
perform(s, opr, left, right) ==
    LET Bounds(s3) ==
            IF s3.err = "" /\ opr \in {"<=", ">=", "=="}
            THEN PerformCompare(s3, opr, left, right)
            ELSE s3
    IN  Bounds(PerformRightExpr(PerformLeftVar(PerformRightVar(s, opr, left, right),
                                               opr, left),
                                opr, right))

(***************************************************************************)
(* CyLPExpr.getPostfix and CyLPExpr.evaluate (lines 122-175).              *)
(***************************************************************************)
Op(opr) == [k |-> "op", opr |-> opr]

RECURSIVE getPostfix(_)
getPostfix(self) ==
    IF IsVar(self) THEN <<self>>
    ELSE LET left == IF IsExpr(self.left) THEN getPostfix(self.left) ELSE <<self.left>>
             right == IF IsExpr(self.right) THEN getPostfix(self.right) ELSE <<self.right>>
         IN  left \o right \o <<Op(self.opr)>>

Pop(operands) == SubSeq(operands, 1, Len(operands) - 1)

Top(operands) == operands[Len(operands)]

\* one turn of the loop over the tokens (lines 142-161): st is the
\* operand stack and the constraint being accumulated
EvalToken(st, token) ==
    IF token.k # "op"
    THEN [st EXCEPT !.operands = Append(@, token),
                    !.cons.variables = IF IsVar(token) /\ ~InList(@, token)
                                       THEN Append(@, token) ELSE @]
    ELSE LET n == IF token.opr = "u-" THEN 1 ELSE 2
             right == Top(st.operands)
             left == IF n = 1 THEN None ELSE Top(Pop(st.operands))
         IN  IF Len(st.operands) < n THEN [st EXCEPT !.cons = Raise(@, "IndexError")]
             ELSE [operands |-> Append(SubSeq(st.operands, 1, Len(st.operands) - n),
                                       CyLPExpr(token.opr, IF n = 1 THEN EmptyStr ELSE left, right)),
                   cons |-> perform(st.cons, token.opr, left, right)]

RECURSIVE EvalTokens(_, _, _)
EvalTokens(st, tokens, i) ==
    IF i > Len(tokens) \/ st.cons.err # "" THEN st
    ELSE EvalTokens(EvalToken(st, tokens[i]), tokens, i + 1)

\* "Reset variables for future constraints" (lines 171-173): the expr
\* pointer of every key of varCoefs
RECURSIVE ResetExprs(_, _)
ResetExprs(vs, keys) ==
    IF keys = <<>> THEN vs
    ELSE ResetExprs(IF IsBlockObj(keys[1]) THEN [vs EXCEPT ![keys[1].blk].expr = Self] ELSE vs,
                    Tail(keys))

\* CyLPExpr.evaluate: the constraint it returns, with the arrays and the
\* block variables as it leaves them; when it raises, err says so and
\* what perform did before stays done.
evaluate(self, arrs, vs) ==
    LET Reset(c1) == [c1 EXCEPT !.vs = ResetExprs(@, Keys(c1.varCoefs))]
        Return(st) ==
            IF st.cons.err # "" THEN st.cons
            ELSE Reset(IF Len(st.operands) = 1 /\ IsVar(st.operands[1])
                       THEN [st.cons EXCEPT !.varCoefs =
                                 SetCoef(@, st.operands[1], Own(Ones(st.operands[1].dim)))]
                       ELSE st.cons)
    IN  Return(EvalTokens([operands |-> <<>>, cons |-> CyLPConstraint(arrs, vs)],
                          getPostfix(self), 1))

\* what the caller reads in a constraint at the moment evaluate returns it:
\* every coefficient by value
Snapshot(c) ==
    [varNames |-> c.varNames, parentVarDims |-> c.parentVarDims,
     varCoefs |-> [i \in DOMAIN c.varCoefs |->
                      [var |-> c.varCoefs[i].var, coef |-> CoefValue(c.varCoefs[i].coef, c.arrs)]],
     lower |-> c.lower, upper |-> c.upper, nRows |-> c.nRows, isRange |-> c.isRange]

\* the constraint object itself, as CyLPModel.constraints holds it
Stored(c) ==
    [varNames |-> c.varNames, parentVarDims |-> c.parentVarDims, varCoefs |-> c.varCoefs,
     lower |-> c.lower, upper |-> c.upper, nRows |-> c.nRows, isRange |-> c.isRange,
     variables |-> c.variables]

(***************************************************************************)
(* CyLPModel (lines 558-701).                                              *)
(***************************************************************************)
\* the inner loops of makeIndexFactory (lines 589-592) for one constraint:
\* the constraint's names, in the order of the model's variables
RECURSIVE AddNames(_, _, _)
AddNames(names, c, vs) ==
    IF vs = <<>> THEN names
    ELSE AddNames(names \o SelectSeq(c.varNames,
                                     LAMBDA vname : vname \notin SeqToSet(names)
                                                    /\ vname = vs[1].name),
                  c, Tail(vs))

RECURSIVE AddVars(_, _, _)
AddVars(f, names, dims) ==
    IF names = <<>> THEN f
    ELSE AddVars(IF hasVar(f, names[1]) THEN f ELSE addVar(f, names[1], dims[names[1]]),
                 Tail(names), dims)

\* CyLPModel.makeIndexFactory (lines 582-598)
RECURSIVE IndexConstraints(_, _, _)
IndexConstraints(m, cs, vs) ==
    IF cs = <<>> THEN m
    ELSE IndexConstraints([allVarNames |-> AddNames(m.allVarNames, cs[1], vs),
                           allParentVarDims |-> cs[1].parentVarDims @@ m.allParentVarDims,
                           nRows |-> m.nRows + cs[1].nRows],
                          Tail(cs), vs)

makeIndexFactory(cs, vs, f) ==
    LET m == IndexConstraints([allVarNames |-> <<>>, allParentVarDims |-> <<>>, nRows |-> 0],
                              cs, vs)
    IN  [allVarNames |-> m.allVarNames, allParentVarDims |-> m.allParentVarDims,
         nRows |-> m.nRows, inds |-> AddVars(f, m.allVarNames, m.allParentVarDims)]

\* the keys of a constraint's varCoefs that belong to the block varName
KeysOf(c, varName) == SelectSeq(c.varCoefs, LAMBDA en : en.var.name = varName)

\* coef[var.indices] += value (line 657), coef 1-D: every position when
\* indices is None
AddAt(coef, var, value) ==
    [p \in DOMAIN coef |->
        IF ~var.hasInd THEN coef[p] + value[IF Len(value) = 1 THEN 1 ELSE p]
        ELSE IF \E j \in DOMAIN var.indices : var.indices[j] + 1 = p
        THEN coef[p] + value[CHOOSE j \in DOMAIN var.indices : var.indices[j] + 1 = p]
        ELSE coef[p]]

RECURSIVE AddAll(_, _, _)
AddAll(coef, keys, arrs) ==
    IF keys = <<>> THEN coef
    ELSE AddAll(AddAt(coef, keys[1].var, CoefValue(keys[1].coef, arrs).m[1]), Tail(keys), arrs)

\* sparseConcat(a, b, 'v') of CyLP.py.utils.sparseUtil: b below a, and b
\* alone when a is None (here <<>>); a narrower block is filled with zeros
sparseConcatV(a, b) ==
    LET w == IF a = <<>> THEN Len(b[1])
             ELSE IF Len(a[1]) > Len(b[1]) THEN Len(a[1]) ELSE Len(b[1])
        Pad(row) == row \o Fill(w - Len(row), 0)
    IN  [i \in 1..(Len(a) + Len(b)) |-> IF i <= Len(a) THEN Pad(a[i]) ELSE Pad(b[i - Len(a)])]

RECURSIVE StackAll(_, _, _)
StackAll(coef, keys, arrs) ==
    IF keys = <<>> THEN coef
    ELSE StackAll(sparseConcatV(coef, CoefValue(keys[1].coef, arrs).m), Tail(keys), arrs)

\* the body of generateVarMatrix's loop (lines 651-663): the rows that the
\* constraint c gives to the block varName of dimension dim
VarMatrixRows(c, varName, dim, arrs) ==
    LET keys == KeysOf(c, varName)
    IN  IF keys = <<>> THEN Fill(c.nRows, Fill(dim, 0))
        ELSE IF c.nRows = 1 THEN <<AddAll(Fill(dim, 0), keys, arrs)>>
        ELSE StackAll(CoefValue(keys[1].coef, arrs).m, Tail(keys), arrs)

\* CyLPModel.generateVarMatrix (lines 643-667); <<>> is None
RECURSIVE VarMatrixFrom(_, _, _, _, _)
VarMatrixFrom(mainCoef, cs, varName, dim, arrs) ==
    IF cs = <<>> THEN mainCoef
    ELSE VarMatrixFrom(sparseConcatV(mainCoef, VarMatrixRows(cs[1], varName, dim, arrs)),
                       Tail(cs), varName, dim, arrs)

generateVarMatrix(cs, dims, arrs, varName) == VarMatrixFrom(<<>>, cs, varName, dims[varName], arrs)

SetAt_WholeBlock(coef, var, value) ==
    [p \in DOMAIN coef |-> value[((p - 1) % Len(value)) + 1]]

\* coef[var.indices] = value (line 640), coef 1-D
SetAt(coef, var, value) ==
    IF var.hasInd THEN AssignAt(coef, var.indices, ArrBound(value))
    ELSE [p \in DOMAIN coef |-> value[IF Len(value) = 1 THEN 1 ELSE p]]

RECURSIVE SetAll(_, _, _, _)
SetAll(coef, keys, order, arrs) ==
    IF order = <<>> THEN coef
    ELSE SetAll(SetAt(coef, keys[order[1]].var, CoefValue(keys[order[1]].coef, arrs).m[1]),
                keys, Tail(order), arrs)

\* CyLPModel.generateVarObjCoef (lines 633-641); order is the order in which
\* the dictionary obj.varCoefs hands out its keys
generateVarObjCoef(obj, dims, arrs, order, varName) ==
    LET ks == SelectSeq(order, LAMBDA i : /\ i \in DOMAIN obj.varCoefs
                                          /\ obj.varCoefs[i].var.name = varName)
    IN  SetAll(Fill(dims[varName], 0), obj.varCoefs, ks, arrs)

\* the loop of the objective's setter (lines 610-614)
RECURSIVE ObjectiveVector(_, _, _, _, _)
ObjectiveVector(obj, names, dims, arrs, order) ==
    IF names = <<>> THEN <<>>
    ELSE generateVarObjCoef(obj, dims, arrs, order, names[1])
         \o ObjectiveVector(obj, Tail(names), dims, arrs, order)

\* whether line 640 can assign value: a 1-D value, as long as the block
\* when indices is None
ObjCoefFits(obj, arrs) ==
    \A i \in DOMAIN obj.varCoefs :
        LET a == CoefValue(obj.varCoefs[i].coef, arrs)
        IN  Len(a.m) = 1 /\ (obj.varCoefs[i].var.hasInd \/ Len(a.m[1]) \in {1, obj.varCoefs[i].var.dim})

\* CyLPModel.addVariable (lines 573-580): the new CyLPVar, with the bounds
\* and the expr pointer of CyLPVar.__init__ (lines 363-365)
addVariable(vs, name, dim) ==
    Append(vs, [name |-> name, dim |-> dim, lower |-> Fill(dim, -getCoinInfinity),
                upper |-> Fill(dim, getCoinInfinity), expr |-> Self])

NoCons == [none |-> TRUE]

\* whether generateVarMatrix, which makeMatrices calls for every block (lines
\* 682-684), raises: line 657 adds a coefficient of several rows into the
\* one row of a constraint whose nRows is 1
MatricesRaise(cs, arrs) ==
    \E i \in DOMAIN cs :
        /\ cs[i].nRows = 1
        /\ \E j \in DOMAIN cs[i].varCoefs : Len(CoefValue(cs[i].varCoefs[j].coef, arrs).m) > 1

\* sparseConcat(a, b, 'h') of CyLP.py.utils.sparseUtil: b to the right of a,
\* and b alone when a is None (here <<>>); the shorter of the two is filled
\* with rows of zeros
sparseConcatH(a, b) ==
    LET wa == IF a = <<>> THEN 0 ELSE Len(a[1])
        wb == IF b = <<>> THEN 0 ELSE Len(b[1])
        h == IF Len(a) > Len(b) THEN Len(a) ELSE Len(b)
    IN  [i \in 1..h |-> (IF i <= Len(a) THEN a[i] ELSE Fill(wa, 0))
                        \o (IF i <= Len(b) THEN b[i] ELSE Fill(wb, 0))]

\* "Create the aggregated coef matrix" (lines 681-684)
RECURSIVE MasterCoefMat(_, _, _, _, _)
MasterCoefMat(masterCoefMat, names, cs, dims, arrs) ==
    IF names = <<>> THEN masterCoefMat
    ELSE MasterCoefMat(sparseConcatH(masterCoefMat, generateVarMatrix(cs, dims, arrs, names[1])),
                       Tail(names), cs, dims, arrs)

\* "Create bound vectors" (lines 687-692): which is "lower" or "upper"
RECURSIVE ConstraintBounds(_, _)
ConstraintBounds(cs, which) ==
    IF cs = <<>> THEN <<>>
    ELSE (IF cs[1].isRange THEN <<>>
          ELSE IF which = "lower" THEN cs[1].lower.v ELSE cs[1].upper.v)
         \o ConstraintBounds(Tail(cs), which)

\* "Create variables bound vectors" (lines 695-699)
RECURSIVE VariableBounds(_, _)
VariableBounds(vs, which) ==
    IF vs = <<>> THEN <<>>
    ELSE (IF which = "lower" THEN vs[1].lower ELSE vs[1].upper) \o VariableBounds(Tail(vs), which)

\* CyLPModel.makeMatrices (lines 669-701): the tuple it returns, None being
\* <<>>, after the makeIndexFactory it starts with; raises when
\* generateVarMatrix or a concatenation does
makeMatrices(cs, vs, f, arrs) ==
    LET Assembled(ix) ==
            [raises |-> FALSE,
             allVarNames |-> ix.allVarNames,
             masterCoefMat |-> MasterCoefMat(<<>>, ix.allVarNames, cs, ix.allParentVarDims, arrs),
             c_lower |-> ConstraintBounds(cs, "lower"),
             c_upper |-> ConstraintBounds(cs, "upper"),
             v_lower |-> VariableBounds(vs, "lower"),
             v_upper |-> VariableBounds(vs, "upper")]
    IN  IF \/ MatricesRaise(cs, arrs)
           \/ \E i \in DOMAIN cs : ~cs[i].isRange /\ (cs[i].lower.num \/ cs[i].upper.num)
        THEN [raises |-> TRUE]
        ELSE Assembled(makeIndexFactory(cs, vs, f))

\* CyLPModel.addConstraint (lines 616-631) on the expression cons that the
\* caller wrote: what the call leaves in the model, with the values the two
\* evaluations returned (first, second), the number of constraints it
\* stored and the exception it raised (err).  makeMatrices (line 631)
\* changes the model through makeIndexFactory alone; the matrices it
\* assembles are dropped.
addConstraint(m, cons) ==
    LET Failed(b) ==
            [m EXCEPT !.variables = b.vs,
                      !.last = [op |-> "addConstraint", expr |-> cons, err |-> "TypeError or AttributeError",
                                first |-> NoCons, second |-> NoCons, stored |-> 0]]
        \* line 631 and the return, cs the constraints and fin the last
        \* evaluation's value
        Made(c, c2, twice, err, cs, fin, ix) ==
            [m EXCEPT !.variables = fin.vs, !.arrays = fin.arrs, !.constraints = cs,
                      !.allVarNames = IF err = "" THEN ix.allVarNames ELSE @,
                      !.allParentVarDims = IF err = "" THEN ix.allParentVarDims ELSE @,
                      !.nRows = IF err = "" THEN ix.nRows ELSE @,
                      !.inds = IF err = "" THEN ix.inds ELSE @,
                      !.last = [op |-> "addConstraint", expr |-> cons,
                                err |-> IF err = "" /\ MatricesRaise(cs, fin.arrs)
                                        THEN "ValueError" ELSE err,
                                first |-> IF c.err = "" THEN Snapshot(c) ELSE NoCons,
                                second |-> IF twice /\ c2.err = "" THEN Snapshot(c2) ELSE NoCons,
                                stored |-> Len(cs) - Len(m.constraints)]]
        Indexed(c, c2, twice, err, cs, fin) ==
            Made(c, c2, twice, err, cs, fin, makeIndexFactory(cs, fin.vs, m.inds))
        \* lines 628-630: c2 the value of the second cons.evaluate()
        Second(c, c2) ==
            Indexed(c, c2, TRUE, c2.err,
                    IF c2.err = "" THEN Append(m.constraints, Stored(c2)) ELSE m.constraints,
                    c2)
        \* lines 618-627: c the value of c = cons.evaluate()
        First(b, c) ==
            IF c.err = "" /\ ~c.isRange THEN Second(c, evaluate(b.val, c.arrs, c.vs))
            ELSE Indexed(c, c, FALSE, c.err, m.constraints, c)
        Built(b) == IF ~b.ok THEN Failed(b) ELSE First(b, evaluate(b.val, m.arrays, b.vs))
    IN  Built(Build(cons, m.variables))

\* the setter of CyLPModel.objective (lines 607-614) on the expression obj;
\* allVarNames is no attribute of the model before makeIndexFactory has run
\* (nRows = -1 here), and objective_ is then left holding the constraint.
\* order is the order in which the dictionary varCoefs hands out its keys.
setObjective(m, obj, order) ==
    LET Failed(b) ==
            [m EXCEPT !.variables = b.vs,
                      !.last = [op |-> "objective", expr |-> obj, err |-> "TypeError or AttributeError",
                                first |-> NoCons, second |-> NoCons, stored |-> 0]]
        Set(c, err) ==
            [m EXCEPT !.variables = c.vs, !.arrays = c.arrs,
                      !.objective_ =
                          IF c.err # "" THEN @
                          ELSE IF err # "" THEN [k |-> "cons", c |-> Stored(c)]
                          ELSE [k |-> "vec",
                                v |-> ObjectiveVector(c, m.allVarNames, m.allParentVarDims,
                                                      c.arrs, order)],
                      !.last = [op |-> "objective", expr |-> obj, err |-> err,
                                first |-> IF c.err = "" THEN Snapshot(c) ELSE NoCons,
                                second |-> NoCons, stored |-> 0]]
        Evaluated(c) ==
            Set(c, IF c.err # "" THEN c.err
                   ELSE IF m.nRows = -1 THEN "AttributeError"
                   ELSE IF ~ObjCoefFits(c, c.arrs) THEN "ValueError" ELSE "")
        Built(b) == IF ~b.ok THEN Failed(b) ELSE Evaluated(evaluate(b.val, m.arrays, b.vs))
    IN  Built(Build(obj, m.variables))

(***************************************************************************)
(* The state machine.                                                      *)
(***************************************************************************)
Model ==
    [variables |-> variables, constraints |-> constraints, objective_ |-> objective_,
     inds |-> inds, allVarNames |-> allVarNames, allParentVarDims |-> allParentVarDims,
     nRows |-> nRows, arrays |-> arrays, last |-> last]

Becomes(m) ==
    /\ variables' = m.variables
    /\ constraints' = m.constraints
    /\ objective_' = m.objective_
    /\ inds' = m.inds
    /\ allVarNames' = m.allVarNames
    /\ allParentVarDims' = m.allParentVarDims
    /\ nRows' = m.nRows
    /\ arrays' = m.arrays
    /\ last' = m.last

\* the arrays the caller holds: c and b are CyLPArray, A and B np.matrix
CallerArrays ==
    [c |-> Vec(<<3, 4>>), b |-> Vec(<<7, 8>>),
     A |-> Mat(<<<<1, 2>>, <<3, 4>>>>), B |-> Mat(<<<<1, 0>>, <<0, 1>>, <<1, 1>>>>)]

\* CyLPModel.__init__ (lines 567-571)
Init ==
    /\ variables = <<>>
    /\ constraints = <<>>
    /\ objective_ = [k |-> "none"]
    /\ inds = IndexFactory
    /\ allVarNames = <<>>
    /\ allParentVarDims = <<>>
    /\ nRows = -1
    /\ arrays = CallerArrays
    /\ last = [op |-> "init"]
    /\ nCalls = 0

UsedNames == {variables[i].name : i \in DOMAIN variables}

\* model.addVariable(name, dim), each name once
AddVariable ==
    \E n \in DOMAIN Names, dim \in 1..MaxDim :
        /\ Names[n] \notin UsedNames
        /\ Becomes([Model EXCEPT !.variables = addVariable(@, Names[n], dim),
                                 !.last = [op |-> "addVariable", name |-> Names[n], dim |-> dim]])
        /\ UNCHANGED nCalls

\* the number of Variables an expression names
RECURSIVE Leaves(_)
Leaves(e) ==
    CASE e.s \in {"blk", "idx", "slc"} -> 1
      [] e.s \in {"num", "arr"} -> 0
      [] e.s = "neg" -> Leaves(e.r)
      [] e.s = "chain" -> Leaves(e.lo) + Leaves(e.mid) + Leaves(e.hi)
      [] OTHER -> Leaves(e.l) + Leaves(e.r)

\* the orders in which a dictionary of at most n keys may hand them out (a
\* dictionary keyed by object identity has no fixed order)
KeyOrders(n) == {[i \in 1..n |-> p[i]] : p \in Permutations(1..n)}

\* model.addConstraint(cons)
AddConstraint(cons) ==
    /\ nCalls < MaxCalls
    /\ nCalls' = nCalls + 1
    /\ Becomes(addConstraint(Model, cons))

\* model.objective = obj
SetObjective(obj) ==
    /\ nCalls < MaxCalls
    /\ nCalls' = nCalls + 1
    /\ \E order \in KeyOrders(Leaves(obj)) :
           Becomes(setObjective(Model, obj, order))

(***************************************************************************)
(* The expressions the caller writes over the variables added so far.      *)
(***************************************************************************)
Blocks(vs) == {V(i) : i \in DOMAIN vs}

Slices(vs) == {Sl(i, a, b) : i \in DOMAIN vs, a \in 0..MaxDim, b \in 1..MaxDim}

ValidSlices(vs) == {e \in Slices(vs) : e.a < e.b /\ e.b <= vs[e.i].dim}

Items(vs) == {e \in {Ix(i, key) : i \in DOMAIN vs, key \in 0..MaxDim} : e.key < vs[e.i].dim}

\* the dim of the Variable a leaf makes
LeafDim(vs, e) ==
    CASE e.s = "blk" -> vs[e.i].dim
      [] e.s = "idx" -> 1
      [] e.s = "slc" -> e.b - e.a

\* lo <= v[a:b] <= hi, the bounds scalars or a CyLPArray as long as the slice
RangeExprs(vs) ==
    {Chain(N(1), "<=", v, "<=", N(5)) : v \in ValidSlices(vs)}
    \cup {Chain(N(1), "<=", v, "<=", A("b")) : v \in {w \in ValidSlices(vs) : LeafDim(vs, w) = 2}}
    \cup {Cmp(v, ">=", N(0)) : v \in Blocks(vs)}
    \cup {Cmp(v, "<=", N(4)) : v \in Blocks(vs)}
    \cup {Cmp(Add(v, w), "<=", N(9)) : v \in {V(1)} \cap Blocks(vs), w \in {V(2)} \cap Blocks(vs)}

NextRange == AddVariable \/ \E cons \in RangeExprs(variables) : AddConstraint(cons)

SpecRange == Init /\ [][NextRange]_vars

(***************************************************************************)
(* The IndexFactory on its own.                                            *)
(***************************************************************************)
IndexAddVar ==
    \E n \in DOMAIN Names, numberOfVars \in 0..MaxCount :
        /\ nCalls < MaxIndexCalls
        /\ nCalls' = nCalls + 1
        /\ inds' = addVar(inds, Names[n], numberOfVars)
        /\ last' = [op |-> "addVar", name |-> Names[n], n |-> numberOfVars]
        /\ UNCHANGED <<variables, constraints, objective_, allVarNames, allParentVarDims,
                       nRows, arrays>>

IndexAddConst ==
    \E n \in DOMAIN ConstNames, numberOfConsts \in 0..MaxCount :
        /\ nCalls < MaxIndexCalls
        /\ nCalls' = nCalls + 1
        /\ inds' = addConst(inds, ConstNames[n], numberOfConsts)
        /\ last' = [op |-> "addConst", name |-> ConstNames[n], n |-> numberOfConsts]
        /\ UNCHANGED <<variables, constraints, objective_, allVarNames, allParentVarDims,
                       nRows, arrays>>

NextIndex == IndexAddVar \/ IndexAddConst

SpecIndex == Init /\ [][NextIndex]_vars

(***************************************************************************)
(* C1.  IndexFactory.                                                      *)
(***************************************************************************)
\* the places <<name, position>> of an index map that hold the index k
PlacesOf(index, k) ==
    {pl \in UNION {{<<nm, p>> : p \in DOMAIN index[nm]} : nm \in DOMAIN index} :
        index[pl[1]][pl[2]] = k}

\* every index below the cursor is assigned once, to one name, and no other
\* index is assigned
Partitions(index, cursor) ==
    /\ \A k \in 0..(cursor - 1) : Cardinality(PlacesOf(index, k)) = 1
    /\ \A nm \in DOMAIN index : \A p \in DOMAIN index[nm] : index[nm][p] \in 0..(cursor - 1)

\* what one call addVar(name, n) or addConst(name, n) does to an index map
\* and its cursor
Extends(index, cursor, index2, cursor2, name, n) ==
    /\ cursor2 = cursor + n
    /\ n = 0 => index2 = index
    /\ n > 0 => /\ DOMAIN index2 = DOMAIN index \cup {name}
                /\ index2[name] = (IF name \in DOMAIN index THEN index[name] ELSE <<>>)
                                  \o Range(cursor, cursor + n)
    /\ \A nm \in DOMAIN index \ {name} : index2[nm] = index[nm]

IndexStep ==
    /\ last'.op = "addVar" =>
           /\ Extends(inds.varIndex, inds.currentVarIndex,
                      inds'.varIndex, inds'.currentVarIndex, last'.name, last'.n)
           /\ inds'.constIndex = inds.constIndex
           /\ inds'.currentConstIndex = inds.currentConstIndex
    /\ last'.op = "addConst" =>
           /\ Extends(inds.constIndex, inds.currentConstIndex,
                      inds'.constIndex, inds'.currentConstIndex, last'.name, last'.n)
           /\ inds'.varIndex = inds.varIndex
           /\ inds'.currentVarIndex = inds.currentVarIndex

\* C1: after any sequence of addVar calls, and of addConst calls, the index
\* lists of the names are pairwise disjoint and together hold every index
\* from 0 to the sum of the counts less one exactly once (each call moves the
\* cursor, 0 at first, by its count); a call on a name already there appends
\* the new indices to the name's list and leaves the indices it had; a call
\* with count 0 changes nothing.
C1_IndexRanges ==
    /\ [](/\ Partitions(inds.varIndex, inds.currentVarIndex)
          /\ Partitions(inds.constIndex, inds.currentConstIndex))
    /\ [][IndexStep]_vars

\* a name added again after another name: its list is in two pieces
C1_Witness ==
    /\ last.op = "addVar"
    /\ last.n > 0
    /\ DOMAIN inds.varIndex = {"x", "y"}
    /\ \E p \in 1..(Len(inds.varIndex["x"]) - 1) :
           inds.varIndex["x"][p + 1] > inds.varIndex["x"][p] + 1
    /\ inds.currentConstIndex > 0

(***************************************************************************)
(* C2.  Range constraints on a slice.                                      *)
(***************************************************************************)
IsSliceRange(e) ==
    e.s = "chain" /\ e.mid.s = "slc" /\ e.lo.s \in {"num", "arr"} /\ e.hi.s \in {"num", "arr"}

\* C2: addConstraint(lo <= v[a:b] <= hi), 0 <= a < b <= v.dim, changes
\* nothing but the positions a .. b-1 of v.lower and v.upper: the other
\* positions of v's bounds, the bounds of the other variables and the list
\* of constraints are after the call what they were before it.
C2_RangeFrame ==
    [][(last'.op = "addConstraint" /\ IsSliceRange(last'.expr)) =>
           LET v == last'.expr.mid
           IN  /\ constraints' = constraints
               /\ Len(variables') = Len(variables)
               /\ \A j \in DOMAIN variables : \A p \in 1..variables[j].dim :
                      (j # v.i \/ p - 1 \notin v.a..(v.b - 1)) =>
                          /\ variables'[j].lower[p] = variables[j].lower[p]
                          /\ variables'[j].upper[p] = variables[j].upper[p]]_vars

\* such a call has set the bounds of a proper slice, in a model that holds a
\* constraint and another variable
C2_Witness ==
    /\ last.op = "addConstraint"
    /\ IsSliceRange(last.expr)
    /\ last.err = ""
    /\ last.expr.mid.b - last.expr.mid.a < variables[last.expr.mid.i].dim
    /\ variables[last.expr.mid.i].lower[last.expr.mid.a + 1] = 1
    /\ variables[last.expr.mid.i].upper[last.expr.mid.b] \in {5, 8}
    /\ Len(variables) = 2
    /\ Len(constraints) = 1

(***************************************************************************)
(* C3.  The block of the coefficient matrix of one constraint coef * v.    *)
(***************************************************************************)
\* the number of columns of a caller's coefficient: any for a number
Columns(coef) == IF coef.s = "num" THEN 0 ELSE LastDim(CallerArrays[coef.id])

\* coef * v <= bound, coef a number, the vector c or the matrix A or B with
\* as many columns as v has entries, v a block or a slice of one
CoefExprs(vs) ==
    {e \in {Cmp(Mul(coef, v), "<=", N(5)) :
                coef \in {N(2), A("c"), A("A"), A("B")}, v \in Blocks(vs) \cup ValidSlices(vs)} :
        Columns(e.l.l) \in {0, LeafDim(vs, e.l.r)}}

NextCoef == AddVariable \/ \E cons \in CoefExprs(variables) : AddConstraint(cons)

SpecCoef == Init /\ [][NextCoef]_vars

IsCoefCons(e) == e.s = "cmp" /\ e.l.s = "bin" /\ e.l.op = "*" /\ e.l.r.s \in {"blk", "slc"}

\* the positions of its block that a Variable of the source stands for
Positions(vs, v) ==
    CASE v.s = "blk" -> Range(0, vs[v.i].dim)
      [] v.s = "idx" -> <<v.key>>
      [] v.s = "slc" -> Range(v.a, v.b)

\* a row of coefficients of v, laid out over v's block
Spread(vs, v, row) ==
    [p \in 1..vs[v.i].dim |->
        IF \E j \in DOMAIN Positions(vs, v) : Positions(vs, v)[j] = p - 1
        THEN row[CHOOSE j \in DOMAIN Positions(vs, v) : Positions(vs, v)[j] = p - 1]
        ELSE 0]

\* the rows of the coefficient the caller wrote before v
RowsOf(vs, coef, v) ==
    IF coef.s = "num" THEN <<Fill(LeafDim(vs, v), coef.n)>> ELSE CallerArrays[coef.id].m

\* C3: in a model whose only stored constraint is coef * v <= bound,
\* generateVarMatrix(v.name) has the constraint's nRows rows and as many
\* columns as v's block has entries; its columns at v's positions are coef
\* and the others are zero.
C3_VarMatrix ==
    (/\ last.op = "addConstraint"
     /\ IsCoefCons(last.expr)
     /\ last.err = ""
     /\ last.stored = 1
     /\ Len(constraints) = 1) =>
        LET v == last.expr.l.r
            rows == RowsOf(variables, last.expr.l.l, v)
        IN  /\ constraints[1].nRows = Len(rows)
            /\ generateVarMatrix(constraints, allParentVarDims, arrays, variables[v.i].name)
                   = [r \in DOMAIN rows |-> Spread(variables, v, rows[r])]

(***************************************************************************)
(* Sums and differences of terms.                                          *)
(***************************************************************************)
\* the Variables the caller writes in a sum: the blocks, a slice that starts
\* at 0, a slice that does not, and single entries
TermLeaves(vs) ==
    Blocks(vs) \cup (ValidSlices(vs) \cap {Sl(1, 0, 2), Sl(1, 1, 3)})
               \cup (Items(vs) \cap {Ix(1, 0), Ix(1, 1)})

\* v + w <= 5 and v - w <= 5 over two Variables, and chains of three
ChainExprs(vs) ==
    {e \in {Cmp(Bin(op, v, w), "<=", N(5)) : op \in {"+", "-"}, v \in TermLeaves(vs),
                                            w \in TermLeaves(vs)} : e.l.l # e.l.r}
    \cup {Cmp(Bin(op, Add(v, w), u), "<=", N(5)) :
              op \in {"+", "-"}, v \in Items(vs) \cap {Ix(1, 0)}, w \in Items(vs) \cap {Ix(1, 1)},
              u \in Blocks(vs) \cap {V(2)}}
    \cup {Cmp(Add(Sub(v, w), u), "<=", N(5)) :
              v \in Blocks(vs) \cap {V(2)}, w \in Items(vs) \cap {Ix(1, 0)},
              u \in Items(vs) \cap {Ix(1, 1)}}

\* coef * v with as many columns as v has entries
Products(vs, coefs, leaves) ==
    {e \in {Mul(coef, v) : coef \in coefs, v \in leaves} :
        Columns(e.l) \in {0, LeafDim(vs, e.r)}}

\* L - R <= 5, R a product or a sum or difference in parentheses
DiffExprs(vs) ==
    {Cmp(Sub(l, r), "<=", N(5)) :
        l \in Blocks(vs) \cap {V(1)},
        r \in Products(vs, {N(2), A("c"), A("A")}, Blocks(vs) \cap {V(2)})
              \cup {Bin(op, v, w) : op \in {"+", "-"}, v \in Blocks(vs) \cap {V(2)},
                                    w \in Items(vs) \cap {Ix(1, 1)}}
              \cup {Add(t, u) : t \in Products(vs, {N(2)}, Items(vs) \cap {Ix(1, 0)}),
                                u \in Products(vs, {N(3)}, Blocks(vs) \cap {V(2)})}}

\* sums of two terms whose coefficients have, or have not, as many rows
RowExprs(vs) ==
    {Cmp(Add(t, u), "<=", N(5)) :
        t \in Products(vs, {A("A")}, Blocks(vs) \cap {V(1)}),
        u \in (Blocks(vs) \cap {V(2)})
              \cup Products(vs, {N(2), A("A"), A("B")}, Blocks(vs) \cap {V(2)})}
    \cup {Cmp(Add(u, t), "<=", N(5)) :
              t \in Products(vs, {A("A")}, Blocks(vs) \cap {V(1)}),
              u \in Blocks(vs) \cap {V(2)}}
    \cup {Cmp(Sub(t, u), "<=", A("b")) :
              t \in Products(vs, {A("A")}, Blocks(vs) \cap {V(1)}),
              u \in Blocks(vs) \cap {V(2)}}

TermExprs(vs) == ChainExprs(vs) \cup DiffExprs(vs) \cup RowExprs(vs)

NextTerms == AddVariable \/ \E cons \in TermExprs(variables) : AddConstraint(cons)

SpecTerms == Init /\ [][NextTerms]_vars

IsLeaf(e) == e.s \in {"blk", "idx", "slc"}

IsProduct(e) == e.s = "bin" /\ e.op = "*" /\ IsLeaf(e.r)

\* the terms of the sum that an expression stands for: each Variable with
\* the rows of its coefficient, sign included
RECURSIVE SignedTerms(_, _, _)
SignedTerms(vs, e, sign) ==
    CASE IsLeaf(e) -> {[v |-> e, rows |-> <<Fill(LeafDim(vs, e), sign)>>]}
      [] IsProduct(e) ->
            {[v |-> e.r, rows |-> Scale([nd |-> 2, m |-> RowsOf(vs, e.l, e.r)], sign).m]}
      [] e.s = "neg" -> SignedTerms(vs, e.r, -sign)
      [] e.s = "bin" /\ e.op = "+" -> SignedTerms(vs, e.l, sign) \cup SignedTerms(vs, e.r, sign)
      [] e.s = "bin" /\ e.op = "-" -> SignedTerms(vs, e.l, sign) \cup SignedTerms(vs, e.r, -sign)

\* the Variable of the source that a CyLPVar object was made from
LeafOf(var) ==
    IF ~var.hasInd THEN V(var.blk)
    ELSE IF var.fromInd # -1 THEN Sl(var.blk, var.fromInd, var.toInd)
    ELSE Ix(var.blk, var.indices[1])

\* the coefficient map that an evaluation returned, in the same terms
ReturnedTerms(c) ==
    {[v |-> LeafOf(c.varCoefs[i].var), rows |-> c.varCoefs[i].coef.m] : i \in DOMAIN c.varCoefs}

(***************************************************************************)
(* C4.  The two evaluations of addConstraint.                              *)
(***************************************************************************)
\* C4: the two evaluations that addConstraint makes of a constraint that is
\* no range return the same varCoefs, nRows, lower and upper, also when a
\* coefficient is a caller's vector or matrix on the right of a subtraction.
C4_SameTwice ==
    (/\ last.op = "addConstraint"
     /\ last.first # NoCons
     /\ last.second # NoCons) =>
        /\ last.first.varCoefs = last.second.varCoefs
        /\ last.first.nRows = last.second.nRows
        /\ last.first.lower = last.second.lower
        /\ last.first.upper = last.second.upper

(***************************************************************************)
(* C7.  Chains of + and - over Variables.                                  *)
(***************************************************************************)
RECURSIVE IsVarChain(_)
IsVarChain(e) ==
    \/ IsLeaf(e)
    \/ e.s = "bin" /\ e.op \in {"+", "-"} /\ IsLeaf(e.r) /\ IsVarChain(e.l)

IsChainCons(e) ==
    /\ e.s = "cmp" /\ e.op = "<=" /\ e.r.s = "num"
    /\ ~IsLeaf(e.l)
    /\ IsVarChain(e.l)

\* C7: addConstraint(v1 +- v2 +- ... <= k), the Variables distinct blocks
\* or slices (slices from 0 among them), stores one constraint with nRows 1
\* in which each Variable has the vector of ones of its dim, negated when a
\* minus precedes it, with upper [k] and lower [-infinity].
C7_ChainOfOnes ==
    (last.op = "addConstraint" /\ IsChainCons(last.expr)) =>
        /\ last.second # NoCons
        /\ last.stored = 1
        /\ constraints[Len(constraints)].nRows = 1
        /\ ReturnedTerms(last.second) = SignedTerms(variables, last.expr.l, 1)
        /\ constraints[Len(constraints)].upper = ArrBound(<<last.expr.r.n>>)
        /\ constraints[Len(constraints)].lower = ArrBound(<<-getCoinInfinity>>)

(***************************************************************************)
(* C9.  Terms of different row counts.                                     *)
(***************************************************************************)
\* the row counts that the terms of a sum ask for: 1 for a Variable alone
\* and for a number or a vector before it, its rows for a matrix
RowCounts(vs, e) == {Len(t.rows) : t \in SignedTerms(vs, e, 1)}

IsSumCons(e) == e.s = "cmp" /\ e.l.s = "bin" /\ e.l.op \in {"+", "-"}

\* C9: an evaluation in which a term asks for another row count than the
\* one an earlier term has fixed raises an error.
C9_RowConflictRaises ==
    (/\ last.op = "addConstraint"
     /\ IsSumCons(last.expr)
     /\ Cardinality(RowCounts(variables, last.expr.l)) > 1) =>
        last.first = NoCons

(***************************************************************************)
(* C10.  L - R with R composite.                                           *)
(***************************************************************************)
IsDiffCons(e) ==
    /\ e.s = "cmp" /\ e.l.s = "bin" /\ e.l.op = "-"
    /\ e.l.r.s = "bin"

\* C10: for L - R, R a product or a sum or difference in parentheses, the
\* coefficient map that evaluation returns is that of L + (-1) * R: every
\* Variable of R negated, those of L as they were.
C10_NegatesAll ==
    (/\ last.op = "addConstraint"
     /\ IsDiffCons(last.expr)
     /\ Cardinality(RowCounts(variables, last.expr.l)) = 1) =>
        /\ last.first # NoCons
        /\ ReturnedTerms(last.first) = SignedTerms(variables, last.expr.l, 1)

(***************************************************************************)
(* C8.  The expr pointers after an evaluation.                             *)
(***************************************************************************)
\* the block variables that an expression names as they are, unsliced
RECURSIVE BlocksIn(_)
BlocksIn(e) ==
    CASE e.s = "blk" -> {e.i}
      [] e.s \in {"idx", "slc", "num", "arr"} -> {}
      [] e.s = "neg" -> BlocksIn(e.r)
      [] e.s = "chain" -> BlocksIn(e.lo) \cup BlocksIn(e.mid) \cup BlocksIn(e.hi)
      [] OTHER -> BlocksIn(e.l) \cup BlocksIn(e.r)

\* C8: when evaluate has returned normally, of a range constraint as of any
\* other, every Variable of the expression has its expr pointer back on
\* itself.
C8_ExprReset ==
    (last.op = "addConstraint" /\ last.first # NoCons) =>
        \A i \in BlocksIn(last.expr) : variables[i].expr = Self

(***************************************************************************)
(* C5.  The two sides of a comparison.                                     *)
(***************************************************************************)
CompareOps == {"<=", ">=", "=="}

\* comparisons between two constants (CyLPExpr made by hand: Python itself
\* compares two numbers), between two Variables or expressions, and between
\* an expression and a constant on either side
CompareExprs(vs) ==
    {Raw(op, N(2), N(3)) : op \in CompareOps}
    \cup {Raw("<=", N(2), A("b"))}
    \cup {Cmp(v, op, w) : op \in CompareOps, v \in Blocks(vs) \cap {V(1)}, w \in Blocks(vs) \cap {V(2)}}
    \cup {Cmp(Add(v, w), "<=", Mul(N(2), v)) : v \in Blocks(vs) \cap {V(1)}, w \in Blocks(vs) \cap {V(2)}}
    \cup {Cmp(Mul(N(2), v), ">=", w) : v \in Blocks(vs) \cap {V(1)}, w \in Blocks(vs) \cap {V(2)}}
    \cup {Cmp(v, op, N(4)) : op \in CompareOps, v \in Blocks(vs) \cap {V(1)}}
    \cup {Cmp(v, "<=", A("b")) : v \in Blocks(vs) \cap {V(2)}}
    \cup {Cmp(N(1), "<=", v) : v \in Blocks(vs) \cap {V(1)}}
    \cup {Cmp(Add(v, Mul(N(2), w)), op, N(9)) :
              op \in {"<=", "=="}, v \in Blocks(vs) \cap {V(1)}, w \in Blocks(vs) \cap {V(2)}}

NextCompare == AddVariable \/ \E cons \in CompareExprs(variables) : AddConstraint(cons)

SpecCompare == Init /\ [][NextCompare]_vars

IsComparison(e) == e.s \in {"cmp", "raw"} /\ e.op \in CompareOps

Symbolic(e) == e.s \notin {"num", "arr"}

\* C5: the evaluation of a comparison between two constants, or between
\* two Variables or expressions, raises an error; it returns only from a
\* comparison of which one side is symbolic and the other a constant.
C5_OneSideConstant ==
    (last.op = "addConstraint" /\ IsComparison(last.expr)) =>
        /\ Symbolic(last.expr.l) = Symbolic(last.expr.r) =>
               last.first = NoCons /\ last.err # "" /\ last.stored = 0
        /\ last.first # NoCons => Symbolic(last.expr.l) # Symbolic(last.expr.r)

\* x <= y has raised the comparison's error, in a model that holds the
\* constraint of a comparison with a constant
C5_Witness ==
    /\ last.op = "addConstraint"
    /\ last.expr = Cmp(V(1), "<=", V(2))
    /\ last.err = "At least one side of a comparison sign should be constant."
    /\ last.first = NoCons
    /\ Len(constraints) = 1

(***************************************************************************)
(* C6.  The objective.                                                     *)
(***************************************************************************)
ObjConstraints(vs) ==
    {Cmp(Add(v, w), "<=", N(9)) : v \in Blocks(vs) \cap {V(1)}, w \in Blocks(vs) \cap {V(2)}}
    \cup {Cmp(Mul(N(2), v), "<=", N(5)) : v \in Blocks(vs)}
    \cup {Cmp(v, ">=", N(0)) : v \in Blocks(vs)}

\* the terms of an objective over the first block, and over the second
FirstTerms(vs) ==
    Products(vs, {N(2), A("c")}, (Blocks(vs) \cap {V(1)}) \cup (ValidSlices(vs) \cap {Sl(1, 0, 2), Sl(1, 1, 3)}))

SecondTerms(vs) ==
    Products(vs, {N(3), A("c")}, (Blocks(vs) \cap {V(2)}) \cup (ValidSlices(vs) \cap {Sl(2, 1, 2)}))

\* sums of one, two or three terms coef * v at different positions
ObjExprs(vs) ==
    FirstTerms(vs) \cup SecondTerms(vs)
    \cup {Add(t, u) : t \in FirstTerms(vs), u \in SecondTerms(vs)}
    \cup {Add(u, t) : u \in SecondTerms(vs) \cap {Mul(N(3), V(2))}, t \in FirstTerms(vs)}
    \cup {Add(Add(t, u), w) :
              t \in Products(vs, {N(2)}, ValidSlices(vs) \cap {Sl(1, 0, 1)}),
              u \in Products(vs, {A("c")}, ValidSlices(vs) \cap {Sl(1, 1, 3)}),
              w \in SecondTerms(vs) \cap {Mul(N(3), V(2))}}

NextObj ==
    \/ AddVariable
    \/ \E cons \in ObjConstraints(variables) : AddConstraint(cons)
    \/ \E obj \in ObjExprs(variables) : SetObjective(obj)

SpecObj == Init /\ [][NextObj]_vars

\* the coefficient that the terms give to position p of the block i
TermsAt(vs, terms, i, p) ==
    {t.rows[1][CHOOSE j \in DOMAIN Positions(vs, t.v) : Positions(vs, t.v)[j] = p - 1] :
        t \in {u \in terms : /\ u.v.i = i
                             /\ \E j \in DOMAIN Positions(vs, u.v) : Positions(vs, u.v)[j] = p - 1}}

BlockOf(vs, name) == CHOOSE i \in DOMAIN vs : vs[i].name = name

\* the segment of the block called name
Segment(vs, terms, name) ==
    [p \in 1..vs[BlockOf(vs, name)].dim |->
        IF TermsAt(vs, terms, BlockOf(vs, name), p) = {} THEN 0
        ELSE CHOOSE k \in TermsAt(vs, terms, BlockOf(vs, name), p) : TRUE]

BlockExprs(vs) ==
    {Cmp(Mul(N(2), v), "<=", N(5)) : v \in Blocks(vs)}
    \cup {Cmp(Mul(N(3), v), ">=", N(1)) : v \in Items(vs)}
    \cup {Cmp(Add(v, w), "<=", N(9)) : v \in Blocks(vs) \cap {V(1)}, w \in Blocks(vs) \cap {V(2)}}
    \cup {Cmp(Sub(w, v), ">=", N(1)) : v \in Blocks(vs) \cap {V(1)}, w \in Blocks(vs) \cap {V(2)}}
    \cup {Cmp(v, ">=", N(0)) : v \in Blocks(vs)}

NextBlocks == AddVariable \/ \E cons \in BlockExprs(variables) : AddConstraint(cons)

SpecBlocks == Init /\ [][NextBlocks]_vars

\* the names of the blocks that the stored constraints have coefficients for
Referenced(cs) ==
    UNION {{cs[i].varCoefs[k].var.name : k \in DOMAIN cs[i].varCoefs} : i \in DOMAIN cs}

\* the place of name in the sequence names
PlaceIn(names, name) == CHOOSE i \in DOMAIN names : names[i] = name

\* allVarNames holds the referenced names, each once
HoldsReferenced ==
    /\ SeqToSet(allVarNames) = Referenced(constraints)
    /\ \A i, j \in DOMAIN allVarNames : allVarNames[i] = allVarNames[j] => i = j

\* allVarNames is in the order of CyLPModel.variables
InCreationOrder ==
    \A i, j \in DOMAIN allVarNames :
        i < j => BlockOf(variables, allVarNames[i]) < BlockOf(variables, allVarNames[j])

\* the step keeps the blocks of allVarNames in the order they have
KeepsOrder ==
    \A i, j \in DOMAIN allVarNames :
        i < j => /\ allVarNames[i] \in SeqToSet(allVarNames')
                 /\ allVarNames[j] \in SeqToSet(allVarNames')
                 /\ PlaceIn(allVarNames', allVarNames[i]) < PlaceIn(allVarNames', allVarNames[j])

\* C11: after every addVariable and addConstraint, allVarNames holds
\* exactly the names of the blocks that some stored constraint references,
\* each once, in the order in which the variables were created; and a
\* further addConstraint keeps the blocks already in allVarNames in their
\* order.
C11_BlockOrder ==
    /\ []((last.op \in {"addVariable", "addConstraint"} /\ nRows # -1) =>
              (HoldsReferenced /\ InCreationOrder))
    /\ [][last'.op = "addConstraint" => KeepsOrder]_vars

\* the number of columns of a matrix, None (<<>>) having none
Width(mat) == IF mat = <<>> THEN 0 ELSE Len(mat[1])

\* the scalar variables <<block, position>>, block after block
Scalars(names, dims) ==
    Concat([n \in DOMAIN names |-> [p \in 1..dims[names[n]] |-> <<names[n], p>>]])

\* the scalar variable of every entry of v_lower and v_upper (lines 695-699)
BoundScalars(vs) ==
    Concat([i \in DOMAIN vs |-> [p \in 1..Len(vs[i].lower) |-> <<vs[i].name, p>>]])

\* C12: when at least one constraint is stored, the v_lower and v_upper
\* that makeMatrices returns are as long as its coefficient matrix is wide,
\* and their entry j is a bound of the scalar variable that column j of the
\* matrix belongs to.
C12_ColumnBounds ==
    LET Aligned(r, ix) ==
            r.raises \/
                /\ Len(r.v_lower) = Width(r.masterCoefMat)
                /\ Len(r.v_upper) = Width(r.masterCoefMat)
                /\ BoundScalars(variables) = Scalars(ix.allVarNames, ix.allParentVarDims)
    IN  (last.op \in {"addVariable", "addConstraint"} /\ Len(constraints) >= 1) =>
            Aligned(makeMatrices(constraints, variables, inds, arrays),
                    makeIndexFactory(constraints, variables, inds))

(***************************************************************************)
(* C13.  The rows of the matrices.                                         *)
(***************************************************************************)
\* the leaves of two columns
Pairs(vs) == {v \in Blocks(vs) \cup ValidSlices(vs) : LeafDim(vs, v) = 2}

\* constraints of one row and of two (the matrix A), with unary negation
\* and with one block in two terms, and range constraints
RowsExprs(vs) ==
    {Cmp(Mul(N(2), v), "<=", N(5)) : v \in Blocks(vs)}
    \cup {Cmp(Add(v, w), "<=", N(9)) : v \in Blocks(vs) \cap {V(1)}, w \in Blocks(vs) \cap {V(2)}}
    \cup {Cmp(Neg(v), "<=", N(5)) : v \in Blocks(vs)}
    \cup {Cmp(Add(Neg(v), w), ">=", N(3)) : v \in Blocks(vs) \cap {V(1)}, w \in Blocks(vs) \cap {V(2)}}
    \cup {Cmp(Add(v, Mul(N(2), w)), "<=", N(4)) : v \in Items(vs) \cap {Ix(1, 0)}, w \in Items(vs) \cap {Ix(1, 1)}}
    \cup {Cmp(Mul(A("A"), v), "<=", N(5)) : v \in Pairs(vs)}
    \cup {Cmp(Add(Mul(A("A"), v), Mul(A("A"), w)), "<=", N(5)) :
              v \in Pairs(vs) \cap {V(1), Sl(1, 0, 2)}, w \in Pairs(vs) \cap {V(2), Sl(1, 1, 3)}}
    \cup {Cmp(v, ">=", N(0)) : v \in Blocks(vs)}

NextRows == AddVariable \/ \E cons \in RowsExprs(variables) : AddConstraint(cons)

SpecRows == Init /\ [][NextRows]_vars

RECURSIVE SumRows(_)
SumRows(cs) == IF cs = <<>> THEN 0 ELSE cs[1].nRows + SumRows(Tail(cs))

\* C13: after an addConstraint that returned, the model's nRows is the sum
\* of the stored constraints' nRows; generateVarMatrix of every block of
\* allVarNames and the matrix that makeMatrices assembles have nRows rows;
\* and c_lower and c_upper have nRows entries.
C13_RowCounts ==
    LET Rows(r) ==
            /\ ~r.raises
            /\ nRows = SumRows(constraints)
            /\ \A n \in DOMAIN allVarNames :
                   Len(generateVarMatrix(constraints, allParentVarDims, arrays, allVarNames[n])) = nRows
            /\ Len(r.masterCoefMat) = nRows
            /\ Len(r.c_lower) = nRows
            /\ Len(r.c_upper) = nRows
    IN  (last.op = "addConstraint" /\ last.err = "") =>
            Rows(makeMatrices(constraints, variables, inds, arrays))

(***************************************************************************)
(* C14.  The objective and the columns of the matrix.                      *)
(***************************************************************************)
\* calls enough to set the objective between two constraints
MaxFlatCalls == 3

FlatConstraints(vs) ==
    {Cmp(Mul(N(2), v), "<=", N(5)) : v \in Blocks(vs)}
    \cup {Cmp(Add(v, w), "<=", N(9)) : v \in Blocks(vs) \cap {V(1)}, w \in Blocks(vs) \cap {V(2)}}
    \cup {Cmp(v, ">=", N(0)) : v \in Blocks(vs) \cap {V(1)}}

FlatObjectives(vs) ==
    {Mul(N(2), v) : v \in Blocks(vs)}
    \cup {Add(Mul(N(2), v), Mul(N(3), w)) : v \in Blocks(vs) \cap {V(1)}, w \in Blocks(vs) \cap {V(2)}}

\* model.addConstraint(cons), in a run of MaxFlatCalls calls
FlatAddConstraint(cons) ==
    /\ nCalls < MaxFlatCalls
    /\ nCalls' = nCalls + 1
    /\ Becomes(addConstraint(Model, cons))

\* model.objective = obj, in a run of MaxFlatCalls calls
FlatSetObjective(obj) ==
    /\ nCalls < MaxFlatCalls
    /\ nCalls' = nCalls + 1
    /\ \E order \in KeyOrders(Leaves(obj)) :
           Becomes(setObjective(Model, obj, order))

NextFlat ==
    \/ AddVariable
    \/ \E cons \in FlatConstraints(variables) : FlatAddConstraint(cons)
    \/ \E obj \in FlatObjectives(variables) : FlatSetObjective(obj)

SpecFlat == Init /\ [][NextFlat]_vars

\* C14: in every state in which objective_ is the flat vector, it has one
\* entry for each column of the matrix that makeMatrices assembles in that
\* state, which is one for each scalar variable of the blocks of
\* allVarNames as makeIndexFactory computes it.
C14_ObjectiveWidth ==
    LET Fits(r, ix) ==
            /\ ~r.raises
            /\ Len(objective_.v) = Width(r.masterCoefMat)
            /\ Len(objective_.v) = Len(Scalars(ix.allVarNames, ix.allParentVarDims))
    IN  objective_.k = "vec" =>
            Fits(makeMatrices(constraints, variables, inds, arrays),
                 makeIndexFactory(constraints, variables, inds))
====
